---- MODULE Spec2Model ----
(***************************************************************************)
(* Model of the Acceso x402 Solana facilitator: the verifier               *)
(* (SolanaFacilitator.verify), the settler (SolanaFacilitator.settle) and  *)
(* the HTTP handlers of main.py that call them.                            *)
(*                                                                         *)
(* Public keys are small integers.  A base58 string is the pair            *)
(* <<"b58", k>>; a string that is not a base58 public key is               *)
(* <<"str", 0>>.  Byte strings are sequences of 0..255.  Unsigned 64-bit   *)
(* quantities are decoded from their little-endian bytes; the inputs keep  *)
(* the high bytes zero so that the values stay inside TLC's integers.      *)
(***************************************************************************)
EXTENDS Integers, Sequences, FiniteSets, TLC

(***************************************************************************)
(* Bounds of the model.                                                    *)
(***************************************************************************)
\* a request differs from the client's template in at most this many places
MaxDeviations == 2

(***************************************************************************)
(* Public keys.                                                            *)
(***************************************************************************)
NoKey == 0
FAC == 1
SENDER == 2
MERCHANT == 3
STRANGER == 4
USDC_MINT == 5
OTHER_MINT == 6
COMPUTE_BUDGET_PROGRAM == 7
SPL_TOKEN_PROGRAM == 8
TOKEN_2022_PROGRAM == 9
ASSOCIATED_TOKEN_PROGRAM == 10
MEMO_PROGRAM == 11

\* number of distinct seed values a derived address is computed from
SeedBase == 16
\* derived addresses are numbered from here upwards
PdaBase == 1000

(***************************************************************************)
(* Settings (config.py).                                                   *)
(***************************************************************************)
usdc_decimals == 6

\* settings.solana_network, the default; a network name is the sequence of
\* its parts, so that "-beta" is a part str.replace can remove
solana_network ==
  <<"mainnet", "-beta">>
max_compute_unit_price == 5

(***************************************************************************)
(* Strings.                                                                *)
(***************************************************************************)
B58(k) ==
  <<"b58", k>>

NotBase58 ==
  <<"str", 0>>

\* Pubkey.from_string: the key of a base58 string, NoKey when it raises
PubkeyFromString(s) ==
  IF s[1] = "b58" THEN s[2] ELSE NoKey

Digits ==
  <<"0", "1", "2", "3", "4", "5", "6", "7", "8", "9">>

IsDigit(c) ==
  \E d \in 1..10 : Digits[d] = c

DigitVal(c) ==
  (CHOOSE d \in 1..10 : Digits[d] = c) - 1

RECURSIVE DigitsValue(_, _)
DigitsValue(s, acc) ==
  IF s = <<>> THEN acc ELSE DigitsValue(Tail(s), acc * 10 + DigitVal(Head(s)))

\* int(str): [ok, value]; ok is FALSE where int() raises ValueError
ParseInt(s) ==
  LET neg  == s # <<>> /\ Head(s) = "-"
      body == IF s # <<>> /\ Head(s) \in {"-", "+"} THEN Tail(s) ELSE s
  IN  IF body = <<>> \/ \E i \in 1..Len(body) : ~IsDigit(body[i])
        THEN [ok |-> FALSE, value |-> 0]
        ELSE [ok |-> TRUE,
              value |-> IF neg THEN 0 - DigitsValue(body, 0) ELSE DigitsValue(body, 0)]

RECURSIVE IntToStr(_)
\* str(n) for n >= 0
IntToStr(n) ==
  IF n < 10 THEN <<Digits[n + 1]>>
  ELSE Append(IntToStr(n \div 10), Digits[(n % 10) + 1])

(***************************************************************************)
(* Bytes.                                                                  *)
(***************************************************************************)
RECURSIVE PackLE(_, _)
\* struct.pack of an unsigned integer on k little-endian bytes
PackLE(n, k) ==
  IF k = 0 THEN <<>> ELSE <<n % 256>> \o PackLE(n \div 256, k - 1)

RECURSIVE UnpackLE(_)
\* struct.unpack("<Q", bytes)[0]
UnpackLE(bytes) ==
  IF bytes = <<>> THEN 0 ELSE Head(bytes) + 256 * UnpackLE(Tail(bytes))

\* data[a:b] of Python, 0-based, on a sequence long enough
Slice(data, a, b) ==
  SubSeq(data, a + 1, b)

\* seq[i] of Python, 0-based
At(seq, i) ==
  seq[i + 1]

(***************************************************************************)
(* Program-derived addresses (Pubkey.find_program_address).  The hash of   *)
(* the seeds, the bump and the program is a number that no other seeds,    *)
(* bump or program give; whether it lies on the curve is a fixed property  *)
(* of that number.                                                         *)
(***************************************************************************)
RECURSIVE SeedsNumber(_, _)
SeedsNumber(seeds, acc) ==
  IF seeds = <<>> THEN acc ELSE SeedsNumber(Tail(seeds), acc * SeedBase + Head(seeds))

create_program_address(seeds, bump, program_id) ==
  PdaBase + SeedsNumber(seeds, program_id) * 256 + bump

OnCurve(address) ==
  ((address \div 256) + address) % 2 = 1

RECURSIVE find_program_address_from(_, _, _)
find_program_address_from(seeds, program_id, bump) ==
  LET address == create_program_address(seeds, bump, program_id)
  IN  IF ~OnCurve(address) \/ bump = 0 THEN <<address, bump>>
      ELSE find_program_address_from(seeds, program_id, bump - 1)

find_program_address(seeds, program_id) ==
  find_program_address_from(seeds, program_id, 255)

_get_associated_token_address(owner, mint, token_program) ==
  LET seeds == <<owner, token_program, mint>>
  IN  find_program_address(seeds, ASSOCIATED_TOKEN_PROGRAM)[1]

(***************************************************************************)
(* Results.                                                                *)
(***************************************************************************)
Reason(msg, x, y) ==
  [msg |-> msg, x |-> x, y |-> y]

\* Python's None in the place of a reason or of an error
None ==
  Reason("None", 0, 0)

\* an exception e, by str(e)
IndexError ==
  Reason("list index out of range", 0, 0)

ValueError ==
  Reason("invalid literal for int() with base 10", 0, 0)

PubkeyError ==
  Reason("Invalid Base58 string", 0, 0)

\* a decoder whose exception has an empty message (C30 depends on the
\* message of the exception)
DecodeErrorMut ==
  Reason("", 0, 0)

DecodeError ==
  Reason("failed to deserialize transaction", 0, 0)

\* str(e) of the binascii.Error of base64.b64decode
Base64Error ==
  Reason("Incorrect padding", 0, 0)

VerifyResponse(is_valid, invalid_reason) ==
  [is_valid |-> is_valid, invalid_reason |-> invalid_reason]

\* the value of a helper: it returned (ok, reason), or it raised reason
Returned(ok, reason) ==
  [raised |-> FALSE, ok |-> ok, reason |-> reason]

Raised(reason) ==
  [raised |-> TRUE, ok |-> FALSE, reason |-> reason]

(***************************************************************************)
(* The verifier (facilitator.py).                                          *)
(***************************************************************************)
\* account_keys[i] raises IndexError
KeyRaises(account_keys, i) ==
  i >= Len(account_keys)

_is_compute_budget_instruction(instruction, account_keys, discriminator) ==
  LET program_id == At(account_keys, instruction.program_id_index)
  IN  IF program_id # COMPUTE_BUDGET_PROGRAM THEN FALSE
      ELSE IF Len(instruction.data) < 1 THEN FALSE
      ELSE At(instruction.data, 0) = discriminator

_verify_compute_price(instruction) ==
  IF Len(instruction.data) < 9
    THEN Returned(FALSE, Reason("Invalid SetComputeUnitPrice instruction", 0, 0))
    ELSE LET price     == UnpackLE(Slice(instruction.data, 1, 9))
             max_price == max_compute_unit_price
         IN  IF price > max_price
               THEN Returned(FALSE, Reason("Compute unit price X exceeds max Y", price, max_price))
               ELSE Returned(TRUE, None)

\* a test that lets an overpayment through (C4 depends on the amount test)
TransferAmountMismatchMut(amount, required_amount) ==
  amount < required_amount

\* a test that accepts any mint (C6 depends on the mint test)
TransferMintMismatchMut(mint, expected_mint) ==
  FALSE

\* a derivation that always uses the classic token program (C5 depends on
\* the token program seed)
TransferExpectedAtaMut(pay_to, expected_mint, program_id) ==
  _get_associated_token_address(pay_to, expected_mint, SPL_TOKEN_PROGRAM)

\* the account count test of the transfer instruction
TransferAccountsTooFew(instruction) ==
  Len(instruction.accounts) < 4

\* the amount test of the transfer instruction
TransferAmountMismatch(amount, required_amount) ==
  amount # required_amount

\* the mint test of the transfer instruction
TransferMintMismatch(mint, expected_mint) ==
  mint # expected_mint

\* the expected destination of the transfer instruction
TransferExpectedAta(pay_to, expected_mint, program_id) ==
  _get_associated_token_address(pay_to, expected_mint, program_id)

_verify_transfer_instruction(instruction, account_keys, requirements) ==
  IF KeyRaises(account_keys, instruction.program_id_index) THEN Raised(IndexError)
  ELSE
  LET program_id == At(account_keys, instruction.program_id_index)
  IN
  IF program_id \notin {SPL_TOKEN_PROGRAM, TOKEN_2022_PROGRAM}
    THEN Returned(FALSE, Reason("Third instruction must be SPL Token TransferChecked", 0, 0))
  ELSE IF Len(instruction.data) < 1 \/ At(instruction.data, 0) # 12
    THEN Returned(FALSE, Reason("Expected TransferChecked instruction", 0, 0))
  ELSE IF Len(instruction.data) < 10
    THEN Returned(FALSE, Reason("Invalid TransferChecked data", 0, 0))
  ELSE
  LET amount   == UnpackLE(Slice(instruction.data, 1, 9))
      decimals == At(instruction.data, 9)
      required == ParseInt(requirements.max_amount_required)
  IN
  IF ~required.ok THEN Raised(ValueError)
  ELSE IF TransferAmountMismatch(amount, required.value)
    THEN Returned(FALSE, Reason("Amount X does not match required Y", amount, required.value))
  ELSE IF decimals # usdc_decimals
    THEN Returned(FALSE, Reason("Decimals X does not match expected Y", decimals, usdc_decimals))
  ELSE IF TransferAccountsTooFew(instruction)
    THEN Returned(FALSE, Reason("TransferChecked requires 4 accounts", 0, 0))
  ELSE IF KeyRaises(account_keys, At(instruction.accounts, 1)) THEN Raised(IndexError)
  ELSE
  LET mint          == At(account_keys, At(instruction.accounts, 1))
      expected_mint == PubkeyFromString(requirements.asset)
  IN
  IF expected_mint = NoKey THEN Raised(PubkeyError)
  ELSE IF TransferMintMismatch(mint, expected_mint)
    THEN Returned(FALSE, Reason("Mint X does not match required Y", mint, expected_mint))
  ELSE IF KeyRaises(account_keys, At(instruction.accounts, 2)) THEN Raised(IndexError)
  ELSE
  LET destination == At(account_keys, At(instruction.accounts, 2))
      pay_to      == PubkeyFromString(requirements.pay_to)
  IN
  IF pay_to = NoKey THEN Raised(PubkeyError)
  ELSE
  LET expected_ata == TransferExpectedAta(pay_to, expected_mint, program_id)
  IN
  IF destination # expected_ata
    THEN Returned(FALSE, Reason("Destination X does not match expected ATA Y", destination, expected_ata))
    ELSE Returned(TRUE, None)

\* base64.b64decode raises: the header is not base64 (characters outside the
\* alphabet are dropped, so it is the padding that is wrong)
B64DecodeRaises(payment_header) ==
  payment_header.fmt = "notbase64"

\* Transaction.from_bytes of the legacy format raises
LegacyFromBytesRaises(payment_header) ==
  payment_header.fmt # "legacy"

\* VersionedTransaction.from_bytes raises
VersionedFromBytesRaises(payment_header) ==
  payment_header.fmt \notin {"legacy", "v0"}

\* the class of tx.message after VersionedTransaction.from_bytes
VersionedMessageClass(payment_header) ==
  IF payment_header.fmt = "v0" THEN "MessageV0" ELSE "Message"

\* a test that only refuses too few instructions (C7 depends on the count
\* test)
InstructionCountWrongMut(instructions) ==
  Len(instructions) < 3

\* the instruction count test of verify
InstructionCountWrong(instructions) ==
  Len(instructions) # 3

\* what the loop over the first two instructions counts at idx:
\* "limit", "price" or "none"
ComputeBudgetKind(instructions, account_keys, idx) ==
  IF _is_compute_budget_instruction(At(instructions, idx), account_keys, 2) THEN "limit"
  ELSE IF _is_compute_budget_instruction(At(instructions, idx), account_keys, 3) THEN "price"
  ELSE "none"

ComputeBudgetCount(instructions, account_keys) ==
  Cardinality({idx \in {0, 1} : ComputeBudgetKind(instructions, account_keys, idx) # "none"})

\* price_instruction_idx after the loop; -1 stands for None
PriceInstructionIdx(instructions, account_keys) ==
  IF ComputeBudgetKind(instructions, account_keys, 1) = "price" THEN 1
  ELSE IF ComputeBudgetKind(instructions, account_keys, 0) = "price" THEN 0
  ELSE 0 - 1

\* a loop that visits the transfer instruction only (C2 depends on the
\* loop over all instructions)
AllAccountIndicesMut(instructions) ==
  At(instructions, 2).accounts

RECURSIVE AllAccountIndices(_)
\* the account indices the fee payer loop visits, in its order
AllAccountIndices(instructions) ==
  IF instructions = <<>> THEN <<>>
  ELSE Head(instructions).accounts \o AllAccountIndices(Tail(instructions))

RECURSIVE FeePayerScan(_, _, _)
\* the fee payer loop: "found", "raise" (IndexError) or "clear"
FeePayerScan(indices, account_keys, fee_payer_pubkey) ==
  IF indices = <<>> THEN "clear"
  ELSE IF KeyRaises(account_keys, Head(indices)) THEN "raise"
  ELSE IF At(account_keys, Head(indices)) = fee_payer_pubkey THEN "found"
  ELSE FeePayerScan(Tail(indices), account_keys, fee_payer_pubkey)

\* the fee payer test of verify, after the transfer instruction passed
VerifyFeePayer(instructions, account_keys, requirements) ==
  LET fee_payer_pubkey == PubkeyFromString(requirements.extra.fee_payer)
      scan == FeePayerScan(AllAccountIndices(instructions), account_keys, fee_payer_pubkey)
  IN  IF fee_payer_pubkey = NoKey THEN VerifyResponse(FALSE, PubkeyError)
      ELSE IF scan = "found"
        THEN VerifyResponse(FALSE, Reason("Fee payer must not be in instruction accounts", 0, 0))
      ELSE IF scan = "raise" THEN VerifyResponse(FALSE, IndexError)
      ELSE VerifyResponse(TRUE, None)

verify(payment_header, requirements) ==
  IF B64DecodeRaises(payment_header)
    THEN VerifyResponse(FALSE, Base64Error)
  ELSE IF LegacyFromBytesRaises(payment_header) /\ VersionedFromBytesRaises(payment_header)
    THEN VerifyResponse(FALSE, DecodeError)
  ELSE IF LegacyFromBytesRaises(payment_header)
          /\ VersionedMessageClass(payment_header) # "MessageV0"
    THEN VerifyResponse(FALSE, Reason("Unsupported transaction format", 0, 0))
  ELSE
  LET instructions == payment_header.instructions
      account_keys == payment_header.account_keys
  IN
  IF InstructionCountWrong(instructions)
    THEN VerifyResponse(FALSE, Reason("Expected 3 instructions, got N", Len(instructions), 0))
  ELSE IF \E idx \in {0, 1} : KeyRaises(account_keys, At(instructions, idx).program_id_index)
    THEN VerifyResponse(FALSE, IndexError)
  ELSE IF ComputeBudgetCount(instructions, account_keys) # 2
    THEN VerifyResponse(FALSE, Reason("First 2 instructions must be ComputeBudget instructions", 0, 0))
  ELSE
  LET price_instruction_idx == PriceInstructionIdx(instructions, account_keys)
      price == IF price_instruction_idx # 0 - 1
                 THEN _verify_compute_price(At(instructions, price_instruction_idx))
                 ELSE Returned(TRUE, None)
  IN
  IF ~price.ok THEN VerifyResponse(FALSE, price.reason)
  ELSE
  LET transfer == _verify_transfer_instruction(At(instructions, 2), account_keys, requirements)
  IN
  IF ~transfer.ok THEN VerifyResponse(FALSE, transfer.reason)
  ELSE VerifyFeePayer(instructions, account_keys, requirements)

(***************************************************************************)
(* Requests.  A client builds the payment as pay_x402.py does: price,      *)
(* limit, TransferChecked; fee payer first, sender second.  The requests   *)
(* of the model are that template changed in at most MaxDeviations places. *)
(***************************************************************************)
SOURCE_ATA == _get_associated_token_address(SENDER, USDC_MINT, SPL_TOKEN_PROGRAM)
MERCHANT_ATA == _get_associated_token_address(MERCHANT, USDC_MINT, SPL_TOKEN_PROGRAM)
MERCHANT_ATA_2022 == _get_associated_token_address(MERCHANT, USDC_MINT, TOKEN_2022_PROGRAM)
MERCHANT_ATA_OTHER_MINT == _get_associated_token_address(MERCHANT, OTHER_MINT, SPL_TOKEN_PROGRAM)
FAC_ATA == _get_associated_token_address(FAC, USDC_MINT, SPL_TOKEN_PROGRAM)

\* the amount of the template, in atomic units
TemplateAmount == 10000
\* the compute unit limit of the template
TemplateUnitLimit == 200000
\* a program index that no account key list of the model reaches
BadIndex == 99
\* the block hash the client put into its message
ClientBlockhash == 1

Instruction(program_id_index, accounts, data) ==
  [program_id_index |-> program_id_index, accounts |-> accounts, data |-> data]

\* a signature: who signed, and over what ("message" bytes or message "hash")
Signature(signer, over) ==
  <<signer, over>>

\* Signature.default()
DefaultSignature ==
  Signature(NoKey, "default")

\* the account keys of a message: the signers first
AccountKeys(signers) ==
  LET last == IF signers = 2 THEN FAC ELSE STRANGER
      head == CASE signers = 1 -> <<FAC, SENDER>>
                [] signers = 2 -> <<STRANGER, SENDER>>
                [] OTHER       -> <<SENDER, FAC>>
  IN  head \o <<SOURCE_ATA, MERCHANT_ATA, MERCHANT_ATA_2022, MERCHANT_ATA_OTHER_MINT,
                FAC_ATA, USDC_MINT, OTHER_MINT, COMPUTE_BUDGET_PROGRAM,
                SPL_TOKEN_PROGRAM, TOKEN_2022_PROGRAM, MEMO_PROGRAM, last>>

IndexOf(account_keys, key) ==
  (CHOOSE i \in 1..Len(account_keys) : account_keys[i] = key) - 1

\* the choices for a compute budget instruction
ComputeBudgetOptions(keys) ==
  LET cb == IndexOf(keys, COMPUTE_BUDGET_PROGRAM)
  IN  << Instruction(cb, <<>>, <<3>> \o PackLE(max_compute_unit_price, 8)),
         Instruction(cb, <<>>, <<2>> \o PackLE(TemplateUnitLimit, 4)),
         Instruction(cb, <<>>, <<3>> \o PackLE(max_compute_unit_price + 1, 8)),
         Instruction(cb, <<>>, <<3>> \o PackLE(256, 8)),
         Instruction(cb, <<>>, <<3>> \o PackLE(max_compute_unit_price, 4)),
         Instruction(cb, <<IndexOf(keys, FAC)>>, <<2>> \o PackLE(TemplateUnitLimit, 4)),
         Instruction(IndexOf(keys, MEMO_PROGRAM), <<>>, <<2>> \o PackLE(TemplateUnitLimit, 4)),
         Instruction(cb, <<>>, <<>>),
         Instruction(BadIndex, <<>>, <<2>> \o PackLE(TemplateUnitLimit, 4)),
         Instruction(cb, <<BadIndex>>, <<2>> \o PackLE(TemplateUnitLimit, 4)) >>

\* the choices for the program of the third instruction
TransferProgramOptions(keys) ==
  << IndexOf(keys, SPL_TOKEN_PROGRAM), IndexOf(keys, TOKEN_2022_PROGRAM),
     IndexOf(keys, COMPUTE_BUDGET_PROGRAM), BadIndex >>

\* the choices for the data of the third instruction
TransferDataOptions ==
  << <<12>> \o PackLE(TemplateAmount, 8) \o <<usdc_decimals>>,
     <<12>> \o PackLE(TemplateAmount - 1, 8) \o <<usdc_decimals>>,
     <<12>> \o PackLE(TemplateAmount + 256, 8) \o <<usdc_decimals>>,
     <<12>> \o PackLE(TemplateAmount + 16777216, 8) \o <<usdc_decimals>>,
     <<3>> \o PackLE(TemplateAmount, 8) \o <<usdc_decimals>>,
     <<12>> \o PackLE(TemplateAmount, 8),
     <<12>> \o PackLE(TemplateAmount, 8) \o <<9>>,
     <<>>,
     <<12>> \o PackLE(TemplateAmount, 8) \o <<usdc_decimals, 0>> >>

\* the choices for the accounts of the third instruction
TransferAccountsOptions(keys) ==
  LET ix(k) == IndexOf(keys, k)
  IN  << <<ix(SOURCE_ATA), ix(USDC_MINT), ix(MERCHANT_ATA), ix(SENDER)>>,
         <<ix(SOURCE_ATA), ix(USDC_MINT), ix(MERCHANT_ATA_2022), ix(SENDER)>>,
         <<ix(SOURCE_ATA), ix(USDC_MINT), ix(FAC_ATA), ix(SENDER)>>,
         <<ix(SOURCE_ATA), ix(USDC_MINT), ix(SOURCE_ATA), ix(SENDER)>>,
         <<ix(SOURCE_ATA), ix(OTHER_MINT), ix(MERCHANT_ATA), ix(SENDER)>>,
         <<ix(SOURCE_ATA), ix(OTHER_MINT), ix(MERCHANT_ATA_OTHER_MINT), ix(SENDER)>>,
         <<ix(FAC_ATA), ix(USDC_MINT), ix(MERCHANT_ATA), ix(FAC)>>,
         <<ix(FAC), ix(USDC_MINT), ix(MERCHANT_ATA), ix(SENDER)>>,
         <<ix(SOURCE_ATA), ix(USDC_MINT), ix(MERCHANT_ATA)>>,
         <<ix(SOURCE_ATA), ix(USDC_MINT), ix(MERCHANT_ATA), ix(SENDER), ix(SENDER)>>,
         <<ix(SOURCE_ATA), ix(USDC_MINT), ix(MERCHANT_ATA), ix(SENDER), ix(FAC)>>,
         <<ix(SOURCE_ATA), BadIndex, ix(MERCHANT_ATA), ix(SENDER)>> >>

\* the choices for maxAmountRequired
AmountOptions ==
  << IntToStr(TemplateAmount), IntToStr(TemplateAmount - 1),
     <<"0">> \o IntToStr(TemplateAmount), <<"1", "e", "4">> >>

AssetOptions ==
  << B58(USDC_MINT), B58(OTHER_MINT), NotBase58 >>

PayToOptions ==
  << B58(MERCHANT), B58(FAC), NotBase58 >>

FeePayerOptions ==
  << B58(FAC), B58(STRANGER), NotBase58 >>

FormatOptions ==
  << "legacy", "v0", "garbage", "notbase64" >>

\* the places where a transaction can differ from the template
TxDims ==
  {"fmt", "signers", "nrs", "ix0", "ix1", "prog", "data", "accts", "count"}

\* the places where a requirement can differ from the template
ReqDims ==
  {"amount", "asset", "pay_to", "fee_payer"}

\* the number of choices at each place
Options ==
  [fmt |-> Len(FormatOptions), signers |-> 3, nrs |-> 3,
   ix0 |-> Len(ComputeBudgetOptions(AccountKeys(1))),
   ix1 |-> Len(ComputeBudgetOptions(AccountKeys(1))),
   prog |-> Len(TransferProgramOptions(AccountKeys(1))),
   data |-> Len(TransferDataOptions),
   accts |-> Len(TransferAccountsOptions(AccountKeys(1))),
   count |-> 3,
   amount |-> Len(AmountOptions), asset |-> Len(AssetOptions),
   pay_to |-> Len(PayToOptions), fee_payer |-> Len(FeePayerOptions)]

\* the payment pay_x402.py builds for the requirement of a merchant
Template ==
  [fmt |-> 1, signers |-> 1, nrs |-> 1, ix0 |-> 1, ix1 |-> 2, prog |-> 1,
   data |-> 1, accts |-> 1, count |-> 1,
   amount |-> 1, asset |-> 1, pay_to |-> 1, fee_payer |-> 1]

RECURSIVE ChoicesWithin(_, _)
\* the template changed in at most k places among dims
ChoicesWithin(dims, k) ==
  IF k = 0 THEN {Template}
  ELSE LET prev == ChoicesWithin(dims, k - 1)
       IN  prev \cup UNION { {[c EXCEPT ![d] = v] : v \in 1..Options[d]} : c \in prev, d \in dims }

\* the requests a client can send to /verify and /settle
Choices ==
  ChoicesWithin(TxDims \cup ReqDims, MaxDeviations)

\* the payments a client can send to the demo resource
DemoChoices ==
  ChoicesWithin(TxDims, MaxDeviations)

\* the choices of instructions for each order of the signers
InstructionOptions ==
  [signers \in 1..3 |->
     [compute_budget |-> ComputeBudgetOptions(AccountKeys(signers)),
      program        |-> TransferProgramOptions(AccountKeys(signers)),
      accounts       |-> TransferAccountsOptions(AccountKeys(signers)),
      keys           |-> AccountKeys(signers)]]

\* the transaction of a choice, as the bytes of X-PAYMENT decode
BuildTx(c) ==
  LET options == InstructionOptions[c.signers]
      keys   == options.keys
      nsig   == CASE c.nrs = 1 -> 2 [] c.nrs = 2 -> 1 [] OTHER -> 3
      ix0    == options.compute_budget[c.ix0]
      ix1    == options.compute_budget[c.ix1]
      ix2    == Instruction(options.program[c.prog],
                            options.accounts[c.accts],
                            TransferDataOptions[c.data])
      memo   == Instruction(IndexOf(keys, MEMO_PROGRAM), <<>>, <<>>)
  IN  [fmt |-> FormatOptions[c.fmt],
       num_required_signatures |-> nsig,
       account_keys |-> keys,
       recent_blockhash |-> ClientBlockhash,
       instructions |-> CASE c.count = 1 -> <<ix0, ix1, ix2>>
                          [] c.count = 2 -> <<ix0, ix1>>
                          [] OTHER       -> <<ix0, ix1, ix2, memo>>,
       signatures |-> [i \in 1..nsig |->
                         IF keys[i] = SENDER THEN Signature(SENDER, "message")
                         ELSE DefaultSignature]]

PaymentRequirements(max_amount_required, asset, pay_to, fee_payer) ==
  [max_amount_required |-> max_amount_required, asset |-> asset, pay_to |-> pay_to,
   extra |-> [fee_payer |-> fee_payer]]

BuildRequirements(c) ==
  PaymentRequirements(AmountOptions[c.amount], AssetOptions[c.asset],
                      PayToOptions[c.pay_to], FeePayerOptions[c.fee_payer])

(***************************************************************************)
(* The settler (facilitator.py) and the chain client.                      *)
(***************************************************************************)
\* no transaction: an absent X-PAYMENT header, or nothing built yet
NoTx ==
  [fmt |-> "none", num_required_signatures |-> 0, account_keys |-> <<>>,
   recent_blockhash |-> 0, instructions |-> <<>>, signatures |-> <<>>]

Err(prefix, reason) ==
  [prefix |-> prefix, msg |-> reason.msg, x |-> reason.x, y |-> reason.y]

NoErr ==
  Err("", None)

SettleResponse(success, error, tx_hash, payer) ==
  [success |-> success, error |-> error, tx_hash |-> tx_hash, payer |-> payer]

\* a settle that ignores the verifier (C3 depends on the early return)
VerificationFailedMut(verify_result) ==
  FALSE

\* settle returns before the chain when the verifier refused the payment
VerificationFailed(verify_result) ==
  ~verify_result.is_valid

\* the signature slots after the legacy branch of settle wrote into them
LegacySignatures(tx, fee_payer) ==
  LET num_signers == tx.num_required_signatures
  IN  [i \in 1..Len(tx.signatures) |->
         IF i <= num_signers /\ i <= Len(tx.account_keys) /\ tx.account_keys[i] = fee_payer
           THEN Signature(fee_payer, "message")
           ELSE tx.signatures[i]]

\* signatures[i] = facilitator_sig raises IndexError
LegacySignaturesRaises(tx, fee_payer) ==
  \E i \in 1..Len(tx.account_keys) :
     /\ i <= tx.num_required_signatures
     /\ tx.account_keys[i] = fee_payer
     /\ i > Len(tx.signatures)

\* the signature list of the versioned branch of settle
VersionedSignatures(tx, fee_payer) ==
  Append(tx.signatures, Signature(fee_payer, "hash"))

\* the block hash the chain answers to get_latest_blockhash
ChainBlockhash == 2

\* a settle that puts the block hash it fetched into the message (C19
\* depends on the fetched block hash staying unused)
CoSignMut(tx, fee_payer) ==
  IF ~LegacyFromBytesRaises(tx)
    THEN [tx EXCEPT !.signatures = LegacySignatures(tx, fee_payer),
                    !.recent_blockhash = ChainBlockhash]
    ELSE [tx EXCEPT !.signatures = VersionedSignatures(tx, fee_payer),
                    !.recent_blockhash = ChainBlockhash]

\* tx_to_send of settle
CoSign(tx, fee_payer) ==
  IF ~LegacyFromBytesRaises(tx)
    THEN [tx EXCEPT !.signatures = LegacySignatures(tx, fee_payer)]
    ELSE [tx EXCEPT !.signatures = VersionedSignatures(tx, fee_payer)]

ClosedError ==
  Reason("client has been closed", 0, 0)

\* what a chain client call gave: nothing yet ("pending"), a value
\* ("value": a block hash or a transaction id) or an exception ("raise")
RpcResult(kind, blockhash, signature, msg) ==
  [kind |-> kind, blockhash |-> blockhash, signature |-> signature, msg |-> msg]

Pending ==
  RpcResult("pending", 0, DefaultSignature, "")

RpcRaised(msg) ==
  RpcResult("raise", 0, DefaultSignature, msg)

\* a call of the chain client, the state of the client it is made on, and
\* what it gave
RpcCall(method, f) ==
  [method |-> method, client |-> f.rpc_client, result |-> Pending]

\* the calls after the last one gave result
Answered(calls, result) ==
  [calls EXCEPT ![Len(calls)].result = result]

\* a settle that answers a fixed text for every exception (C20 depends on
\* str(e) being passed on)
SettleAfterSendMut(result, fee_payer) ==
  IF result.kind = "value"
    THEN SettleResponse(TRUE, NoErr, result.signature, fee_payer)
    ELSE SettleResponse(FALSE, Err("", Reason("Settlement failed", 0, 0)), DefaultSignature, NoKey)

\* what settle returns once send_transaction gave result
SettleAfterSend(result, fee_payer) ==
  IF result.kind = "value"
    THEN SettleResponse(TRUE, NoErr, result.signature, fee_payer)
    ELSE SettleResponse(FALSE, Err("", Reason(result.msg, 0, 0)), DefaultSignature, NoKey)

\* the transaction id the chain answers: the first signature
TxId(tx) ==
  IF tx.signatures = <<>> THEN DefaultSignature ELSE tx.signatures[1]

(***************************************************************************)
(* Prices: the conversion of generate_requirements.                        *)
(***************************************************************************)
\* str.replace(old, ""): every occurrence of the character goes
Replace(s, old) ==
  SelectSeq(s, LAMBDA ch : ch # old)

\* float(s) raises ValueError: s is not a decimal numeral, an optional sign,
\* digits and at most one point (the exponent, inf, nan and blank forms that
\* float also reads are not among PriceOptions)
FloatRaises(s) ==
  LET body == IF s # <<>> /\ Head(s) \in {"-", "+"} THEN Tail(s) ELSE s
  IN  \/ \A i \in 1..Len(body) : ~IsDigit(body[i])
      \/ \E i \in 1..Len(body) : ~IsDigit(body[i]) /\ body[i] # "."
      \/ Cardinality({i \in 1..Len(body) : body[i] = "."}) > 1

\* a number in decimal: sign, digits before the point, digits after it
Number(neg, int, frac) ==
  [neg |-> neg, int |-> int, frac |-> frac]

\* float(s) * 10 ** usdc_decimals in IEEE 754 binary64, the exact value of
\* the resulting double written in decimal (the digits after the point cut
\* after the fourth), for the numerals of PriceOptions
FloatProducts ==
  << [price |-> <<"0", ".", "0", "1">>,
      product |-> Number(FALSE, <<"1", "0", "0", "0", "0">>, <<>>)],
     [price |-> <<"1">>,
      product |-> Number(FALSE, <<"1", "0", "0", "0", "0", "0", "0">>, <<>>)],
     [price |-> <<"0">>,
      product |-> Number(FALSE, <<"0">>, <<>>)],
     [price |-> <<"0", ".", "0", "0", "0", "0", "0", "0", "1">>,
      product |-> Number(FALSE, <<"0">>, <<"0", "9", "9", "9">>)],
     [price |-> <<"-", "1">>,
      product |-> Number(TRUE, <<"1", "0", "0", "0", "0", "0", "0">>, <<>>)],
     [price |-> <<"2", "0", "0", "0", "0", "0", "0", "0", "0", "0", "0", "0", "0", "0">>,
      product |-> Number(FALSE, <<"2", "0", "0", "0", "0", "0", "0", "0", "0", "0",
                                  "0", "0", "0", "0", "0", "0", "0", "0", "0", "0">>, <<>>)],
     [price |-> <<"1", ".", "0", "0", "1">>,
      product |-> Number(FALSE, <<"1", "0", "0", "0", "9", "9", "9">>, <<"9", "9", "9", "9">>)],
     [price |-> <<"0", ".", "0", "2", "3", "4", "3", "7", "5">>,
      product |-> Number(FALSE, <<"2", "3", "4", "3", "7">>, <<"5">>)] >>

FloatTimesPow10(s) ==
  FloatProducts[CHOOSE i \in 1..Len(FloatProducts) : FloatProducts[i].price = s].product

\* int(x): the fraction is dropped, towards zero
IntTrunc(x) ==
  Number(x.neg, x.int, <<>>)

RECURSIVE StripZeros(_)
\* digits without leading zeros, one digit at least
StripZeros(digits) ==
  IF Len(digits) > 1 /\ Head(digits) = "0" THEN StripZeros(Tail(digits)) ELSE digits

\* str(n) of an int n
StrOfInt(n) ==
  LET digits == StripZeros(n.int)
  IN  IF n.neg /\ digits # <<"0">> THEN <<"-">> \o digits ELSE digits

\* str(int(float(price.replace("$", "")) * 10 ** usdc_decimals)), or the
\* ValueError of float
amount_atomic(price) ==
  LET price_usd == Replace(price, "$")
  IN  IF FloatRaises(price_usd)
        THEN [raised |-> TRUE, text |-> <<>>]
        ELSE [raised |-> FALSE, text |-> StrOfInt(IntTrunc(FloatTimesPow10(price_usd)))]

\* the prices a merchant sends to /requirements
PriceOptions ==
  { <<"0", ".", "0", "1">>,
    <<"$", "0", ".", "0", "1">>,
    <<"1">>,
    <<"0">>,
    <<"0", ".", "0", "0", "0", "0", "0", "0", "1">>,
    <<"-", "1">>,
    <<"2", "0", "0", "0", "0", "0", "0", "0", "0", "0", "0", "0", "0", "0">>,
    <<"1", ".", "0", "0", "1">>,
    <<"0", ".", "0", "2", "3", "4", "3", "7", "5">>,
    <<"a", "b", "c">> }

\* no price, no payTo: the request is not one to /requirements
NoPrice ==
  <<>>

NoPayTo ==
  <<"none", 0>>

(***************************************************************************)
(* The process: the global facilitator and one request at a time.          *)
(***************************************************************************)
VARIABLES
  phase,          \* "init", "running" (lifespan started), "stopped"
  key_config,     \* settings.facilitator_private_key: "valid", "empty", "malformed"
  facilitator,    \* the SolanaFacilitator object and whether _facilitator names it
  pc,             \* where the request is: "idle" (none), "get_latest_blockhash",
                  \* "send_transaction" (awaiting the call), "responded"
  req,            \* the request: endpoint, payment header, requirements, and
                  \* the price and payTo sent to /requirements
  verify_result,  \* what facilitator.verify returned last in this request
  rpc_calls,      \* the chain client calls of this request, in order
  tx_to_send,     \* the transaction settle built for submission
  resp,           \* the HTTP response of the request
  deadline_elapsed  \* the request has a chain client call pending, or had one,
                    \* when min(maxTimeoutSeconds, default_timeout_seconds)
                    \* seconds had passed since it began

vars ==
  <<phase, key_config, facilitator, pc, req, verify_result, rpc_calls, tx_to_send, resp,
    deadline_elapsed>>

\* facilitator.verify was not called
NotVerified ==
  VerifyResponse(FALSE, Reason("not called", 0, 0))

KeyConfigError ==
  Reason("Invalid facilitator private key", 0, 0)

\* no X-PAYMENT-RESPONSE header
NoHeader ==
  <<"none">>

\* base64.b64encode(...).decode() and its inverse, which raises ("raise")
\* on what is not base64
B64Encode(bytes) ==
  <<"base64", bytes>>

B64Decode(text) ==
  IF text[1] = "base64" THEN text[2] ELSE <<"raise">>

\* settle_result.model_dump_json(by_alias=True), and json.loads
ModelDumpJson(s) ==
  <<"json", [success |-> s.success, error |-> s.error, txHash |-> s.tx_hash,
             payer |-> s.payer]>>

JsonLoads(bytes) ==
  IF bytes[1] = "json" THEN bytes[2] ELSE <<"raise">>

\* a response: the status, the fields of the body, the X-PAYMENT-RESPONSE
\* header, and whether it is the server's answer to an exception that
\* escaped the handler
Http(status, v, s, error) ==
  [status |-> status, is_valid |-> v.is_valid, invalid_reason |-> v.invalid_reason,
   success |-> s.success, settle_error |-> s.error, tx_hash |-> s.tx_hash,
   payer |-> s.payer, error |-> error,
   x402_version |-> 0, accepts |-> <<>>, fee_payer |-> NoPayTo, kinds |-> <<>>,
   x_payment_response |-> NoHeader, escaped |-> FALSE]

\* SupportedKind(scheme=..., network=...)
SupportedKind(scheme, network) ==
  [scheme |-> scheme, network |-> network]

\* the kinds GET /v1/x402/supported answers
SupportedKinds ==
  << SupportedKind("exact", <<"solana">>),
     SupportedKind("exact", <<"solana", "-devnet">>) >>

\* the requirement as the handlers issue it: scheme="exact",
\* network=settings.solana_network.replace("-beta", "")
WithKind(requirements) ==
  [scheme |-> "exact", network |-> Replace(solana_network, "-beta"),
   max_amount_required |-> requirements.max_amount_required,
   asset |-> requirements.asset, pay_to |-> requirements.pay_to,
   extra |-> requirements.extra]

\* PaymentRequiredResponse(x402_version=1, accepts=[requirements], error=...)
\* as the body of response
PaymentRequiredResponse(response, requirements) ==
  [response EXCEPT !.x402_version = 1, !.accepts = <<WithKind(requirements)>>]

\* the exception e left the handler: the server answers 500 by itself
Escaped(e) ==
  [Http(500, NotVerified, [success |-> FALSE, error |-> NoErr,
                           tx_hash |-> Signature(NoKey, "default"), payer |-> NoKey],
        Err("", e))
     EXCEPT !.escaped = TRUE]

NoSettle ==
  SettleResponse(FALSE, NoErr, DefaultSignature, NoKey)

NoResponse ==
  Http(0, NotVerified, NoSettle, NoErr)

\* get_facilitator: the object afterwards, and whether initialize raised
get_facilitator(f, key) ==
  IF f.installed THEN [fac |-> f, raised |-> FALSE]
  ELSE [fac |-> [installed |-> TRUE,
                 fee_payer |-> IF key = "valid" THEN FAC ELSE NoKey,
                 rpc_client |-> "open"],
        raised |-> key = "malformed"]

Init ==
  /\ phase = "init"
  /\ key_config \in {"valid", "empty", "malformed"}
  /\ facilitator = [installed |-> FALSE, fee_payer |-> NoKey, rpc_client |-> "none"]
  /\ pc = "idle"
  /\ req = [endpoint |-> "none", payment_header |-> NoTx,
            requirements |-> BuildRequirements(Template),
            price |-> NoPrice, pay_to |-> NoPayTo]
  /\ verify_result = NotVerified
  /\ rpc_calls = <<>>
  /\ tx_to_send = NoTx
  /\ resp = NoResponse
  /\ deadline_elapsed = FALSE

\* lifespan, startup part
Startup ==
  /\ phase = "init"
  /\ pc = "idle"
  /\ phase' = "running"
  /\ facilitator' = get_facilitator(facilitator, key_config).fac
  /\ UNCHANGED <<deadline_elapsed, key_config, pc, req, verify_result, rpc_calls, tx_to_send, resp>>

\* lifespan, shutdown part: close_facilitator
Shutdown ==
  /\ phase = "running"
  /\ pc # "responded"
  /\ phase' = "stopped"
  /\ facilitator' = IF facilitator.installed
                      THEN [facilitator EXCEPT !.installed = FALSE, !.rpc_client = "closed"]
                      ELSE facilitator
  /\ UNCHANGED <<deadline_elapsed, key_config, pc, req, verify_result, rpc_calls, tx_to_send, resp>>

Serving ==
  phase \in {"init", "running"} /\ pc = "idle"

\* a verifier that asks the chain for the sender's balance (C15 depends on
\* verify making no chain client call)
verify_payment_withMut(c) ==
  LET gf     == get_facilitator(facilitator, key_config)
      header == BuildTx(c)
      vr     == verify(header, BuildRequirements(c))
  IN  /\ facilitator' = gf.fac
      /\ req' = [endpoint |-> "verify", payment_header |-> header,
                 requirements |-> BuildRequirements(c),
                 price |-> NoPrice, pay_to |-> NoPayTo]
      /\ verify_result' = IF gf.raised THEN NotVerified ELSE vr
      /\ resp' = IF gf.raised
                   THEN Http(200, VerifyResponse(FALSE, KeyConfigError), NoSettle, NoErr)
                   ELSE Http(200, vr, NoSettle, NoErr)
      /\ rpc_calls' = IF gf.raised THEN <<>> ELSE <<RpcCall("get_balance", gf.fac)>>
      /\ tx_to_send' = NoTx
      /\ pc' = "responded"
      /\ UNCHANGED <<phase, key_config, deadline_elapsed>>

\* POST /v1/x402/verify with the request of choice c
verify_payment_with(c) ==
  LET gf     == get_facilitator(facilitator, key_config)
      header == BuildTx(c)
      R      == BuildRequirements(c)
      vr     == verify(header, R)
  IN  /\ facilitator' = gf.fac
      /\ req' = [endpoint |-> "verify", payment_header |-> header, requirements |-> R,
                 price |-> NoPrice, pay_to |-> NoPayTo]
      /\ verify_result' = IF gf.raised THEN NotVerified ELSE vr
      /\ resp' = IF gf.raised
                   THEN Http(200, VerifyResponse(FALSE, KeyConfigError), NoSettle, NoErr)
                   ELSE Http(200, vr, NoSettle, NoErr)
      /\ rpc_calls' = <<>>
      /\ tx_to_send' = NoTx
      /\ pc' = "responded"
      /\ UNCHANGED <<phase, key_config, deadline_elapsed>>

\* the messages str(e) of the exceptions the chain client raises
RpcMessages ==
  {"Blockhash not found", ""}

NotConfigured ==
  Reason("Facilitator not configured", 0, 0)

\* settle up to its first chain client call: either it returned (done) with
\* a SettleResponse, or it awaits get_latest_blockhash
settle_begin(f, payment_header, requirements) ==
  IF f.fee_payer = NoKey
    THEN [done |-> TRUE, verify_result |-> NotVerified,
          result |-> SettleResponse(FALSE, Err("", NotConfigured), DefaultSignature, NoKey)]
  ELSE
  LET vr == verify(payment_header, requirements)
  IN  IF VerificationFailed(vr)
        THEN [done |-> TRUE, verify_result |-> vr,
              result |-> SettleResponse(FALSE, Err("Verification failed: ", vr.invalid_reason),
                                        DefaultSignature, NoKey)]
        ELSE [done |-> FALSE, verify_result |-> vr, result |-> NoSettle]

\* a demo endpoint that answers 200 whatever settle returned (C22 depends
\* on the 402 of a failed settlement)
SettleHttpMut(endpoint, requirements, vr, result) ==
  Http(200, vr, result, NoErr)

\* the response of the endpoint to a SettleResponse
SettleHttp(endpoint, requirements, vr, result) ==
  IF endpoint = "settle" THEN Http(200, NotVerified, result, NoErr)
  ELSE IF result.success
    THEN [Http(200, vr, result, NoErr)
            EXCEPT !.x_payment_response = B64Encode(ModelDumpJson(result))]
  ELSE PaymentRequiredResponse(
         Http(402, vr, result,
              IF result.error.msg = "" /\ result.error.prefix = ""
                THEN Err("", Reason("Settlement failed", 0, 0))
                ELSE result.error),
         requirements)

\* POST /v1/x402/settle with the request of choice c
settle_payment_with(c) ==
  LET gf     == get_facilitator(facilitator, key_config)
      header == BuildTx(c)
      R      == BuildRequirements(c)
      begin  == settle_begin(gf.fac, header, R)
  IN  /\ facilitator' = gf.fac
      /\ req' = [endpoint |-> "settle", payment_header |-> header, requirements |-> R,
                 price |-> NoPrice, pay_to |-> NoPayTo]
      /\ tx_to_send' = NoTx
      /\ UNCHANGED <<phase, key_config, deadline_elapsed>>
      /\ IF gf.raised
           THEN /\ verify_result' = NotVerified
                /\ resp' = SettleHttp("settle", R, NotVerified,
                             SettleResponse(FALSE, Err("", KeyConfigError), DefaultSignature, NoKey))
                /\ rpc_calls' = <<>>
                /\ pc' = "responded"
         ELSE IF begin.done
           THEN /\ verify_result' = begin.verify_result
                /\ resp' = SettleHttp("settle", R, begin.verify_result, begin.result)
                /\ rpc_calls' = <<>>
                /\ pc' = "responded"
         ELSE   /\ verify_result' = begin.verify_result
                /\ resp' = NoResponse
                /\ rpc_calls' = <<RpcCall("get_latest_blockhash", gf.fac)>>
                /\ pc' = "get_latest_blockhash"

\* a demo resource priced at 0.001 USDC (C23 depends on the amount 10000)
DemoRequirementsMut(fee_payer_pubkey) ==
  PaymentRequirements(IntToStr(1000), B58(USDC_MINT), B58(fee_payer_pubkey),
                      B58(fee_payer_pubkey))

\* the requirement of the demo resource
DemoRequirements(fee_payer_pubkey) ==
  PaymentRequirements(IntToStr(10000), B58(USDC_MINT), B58(fee_payer_pubkey),
                      B58(fee_payer_pubkey))

\* GET /v1/x402/demo/protected without X-PAYMENT
demo_protected_unpaid ==
  LET gf == get_facilitator(facilitator, key_config)
  IN  /\ Serving
      /\ facilitator' = gf.fac
      /\ req' = [endpoint |-> "demo", payment_header |-> NoTx,
                 requirements |-> DemoRequirements(gf.fac.fee_payer),
                 price |-> NoPrice, pay_to |-> NoPayTo]
      /\ verify_result' = NotVerified
      /\ rpc_calls' = <<>>
      /\ tx_to_send' = NoTx
      /\ resp' = IF gf.raised THEN Escaped(KeyConfigError)
                 ELSE IF gf.fac.fee_payer = NoKey
                   THEN Http(503, NotVerified, NoSettle,
                             Err("Demo endpoint unavailable: ", Reason("facilitator not configured", 0, 0)))
                 ELSE PaymentRequiredResponse(
                        Http(402, NotVerified, NoSettle, Err("", Reason("Payment required", 0, 0))),
                        DemoRequirements(gf.fac.fee_payer))
      /\ pc' = "responded"
      /\ UNCHANGED <<phase, key_config, deadline_elapsed>>

\* GET /v1/x402/demo/protected with the X-PAYMENT of choice c
demo_protected_with(c) ==
  LET gf     == get_facilitator(facilitator, key_config)
      header == BuildTx(c)
      R      == DemoRequirements(gf.fac.fee_payer)
      vr     == verify(header, R)
      begin  == settle_begin(gf.fac, header, R)
  IN  /\ facilitator' = gf.fac
      /\ req' = [endpoint |-> "demo", payment_header |-> header, requirements |-> R,
                 price |-> NoPrice, pay_to |-> NoPayTo]
      /\ tx_to_send' = NoTx
      /\ UNCHANGED <<phase, key_config, deadline_elapsed>>
      /\ IF gf.raised \/ gf.fac.fee_payer = NoKey
           THEN /\ verify_result' = NotVerified
                /\ resp' = IF gf.raised
                             THEN Escaped(KeyConfigError)
                             ELSE Http(503, NotVerified, NoSettle,
                                       Err("Demo endpoint unavailable: ",
                                           Reason("facilitator not configured", 0, 0)))
                /\ rpc_calls' = <<>>
                /\ pc' = "responded"
         ELSE IF ~vr.is_valid
           THEN /\ verify_result' = vr
                /\ resp' = PaymentRequiredResponse(
                             Http(402, vr, NoSettle,
                                  IF vr.invalid_reason.msg = ""
                                    THEN Err("", Reason("Invalid payment", 0, 0))
                                    ELSE Err("", vr.invalid_reason)),
                             R)
                /\ rpc_calls' = <<>>
                /\ pc' = "responded"
         ELSE IF begin.done
           THEN /\ verify_result' = begin.verify_result
                /\ resp' = SettleHttp("demo", R, begin.verify_result, begin.result)
                /\ rpc_calls' = <<>>
                /\ pc' = "responded"
         ELSE   /\ verify_result' = begin.verify_result
                /\ resp' = NoResponse
                /\ rpc_calls' = <<RpcCall("get_latest_blockhash", gf.fac)>>
                /\ pc' = "get_latest_blockhash"

\* settle ends with result
SettleReturns(result) ==
  /\ resp' = SettleHttp(req.endpoint, req.requirements, verify_result, result)
  /\ pc' = "responded"

\* get_latest_blockhash returned (outcome "ok") or raised (a message);
\* settle goes on to sign and to call send_transaction
get_latest_blockhash_returns(outcome) ==
  LET tx == req.payment_header
      fp == facilitator.fee_payer
      blockhash_resp == RpcResult("value", ChainBlockhash, DefaultSignature, "")
  IN  /\ pc = "get_latest_blockhash"
      /\ UNCHANGED <<deadline_elapsed, phase, key_config, facilitator, req, verify_result>>
      /\ IF outcome # "ok"
           THEN /\ SettleReturns(SettleResponse(FALSE, Err("", Reason(outcome, 0, 0)),
                                                DefaultSignature, NoKey))
                /\ rpc_calls' = Answered(rpc_calls, RpcRaised(outcome))
                /\ UNCHANGED tx_to_send
         ELSE IF ~LegacyFromBytesRaises(tx) /\ LegacySignaturesRaises(tx, fp)
           THEN /\ SettleReturns(SettleResponse(FALSE, Err("", IndexError), DefaultSignature, NoKey))
                /\ rpc_calls' = Answered(rpc_calls, blockhash_resp)
                /\ UNCHANGED tx_to_send
         ELSE IF facilitator.rpc_client = "closed"
           THEN /\ SettleReturns(SettleResponse(FALSE, Err("", ClosedError), DefaultSignature, NoKey))
                /\ rpc_calls' = Answered(Append(Answered(rpc_calls, blockhash_resp),
                                                RpcCall("send_transaction", facilitator)),
                                         RpcRaised(ClosedError.msg))
                /\ tx_to_send' = CoSign(tx, fp)
         ELSE   /\ rpc_calls' = Append(Answered(rpc_calls, blockhash_resp),
                                       RpcCall("send_transaction", facilitator))
                /\ tx_to_send' = CoSign(tx, fp)
                /\ pc' = "send_transaction"
                /\ UNCHANGED resp

\* a settle that submits again when the chain client raised (C31 depends on
\* the absence of a retry)
send_transaction_returnsMut(outcome) ==
  LET result == IF outcome = "ok" THEN RpcResult("value", 0, TxId(tx_to_send), "")
                ELSE RpcRaised(outcome)
  IN  /\ pc = "send_transaction"
      /\ UNCHANGED <<deadline_elapsed, phase, key_config, facilitator, req, verify_result, tx_to_send>>
      /\ IF outcome = "ok"
           THEN /\ rpc_calls' = Answered(rpc_calls, result)
                /\ SettleReturns(SettleAfterSend(result, facilitator.fee_payer))
           ELSE /\ rpc_calls' = Append(Answered(rpc_calls, result),
                                       RpcCall("send_transaction", facilitator))
                /\ UNCHANGED <<pc, resp>>

\* send_transaction returned the transaction id or raised
send_transaction_returns(outcome) ==
  LET result == IF outcome = "ok" THEN RpcResult("value", 0, TxId(tx_to_send), "")
                ELSE RpcRaised(outcome)
  IN  /\ pc = "send_transaction"
      /\ UNCHANGED <<deadline_elapsed, phase, key_config, facilitator, req, verify_result, tx_to_send>>
      /\ rpc_calls' = Answered(rpc_calls, result)
      /\ SettleReturns(SettleAfterSend(result, facilitator.fee_payer))

\* str(e) of the ValueError float raises
FloatError ==
  Reason("could not convert string to float", 0, 0)

NotInitialized ==
  Reason("Facilitator not initialized", 0, 0)

\* raise HTTPException(status_code=..., detail=str(e))
HTTPException(status_code, e) ==
  Http(status_code, NotVerified, NoSettle, Err("", e))

\* POST /v1/x402/requirements with price and payTo
generate_requirements_with(price, pay_to) ==
  LET gf     == get_facilitator(facilitator, key_config)
      amount == amount_atomic(price)
  IN  /\ facilitator' = gf.fac
      /\ req' = [endpoint |-> "requirements", payment_header |-> NoTx,
                 requirements |-> BuildRequirements(Template),
                 price |-> price, pay_to |-> pay_to]
      /\ verify_result' = NotVerified
      /\ rpc_calls' = <<>>
      /\ tx_to_send' = NoTx
      /\ resp' = IF gf.raised THEN HTTPException(500, KeyConfigError)
                 ELSE IF amount.raised THEN HTTPException(500, FloatError)
                 ELSE IF gf.fac.fee_payer = NoKey THEN HTTPException(500, NotInitialized)
                 ELSE PaymentRequiredResponse(
                        Http(200, NotVerified, NoSettle, Err("", Reason("", 0, 0))),
                        PaymentRequirements(amount.text, B58(USDC_MINT), pay_to,
                                            B58(gf.fac.fee_payer)))
      /\ pc' = "responded"
      /\ UNCHANGED <<phase, key_config, deadline_elapsed>>

\* POST /v1/x402/requirements
generate_requirements ==
  Serving /\ \E price \in PriceOptions :
               \E i \in 1..Len(PayToOptions) : generate_requirements_with(price, PayToOptions[i])

\* GET /v1/x402/supported: the handler does not touch the facilitator
get_supported ==
  /\ Serving
  /\ req' = [endpoint |-> "supported", payment_header |-> NoTx,
             requirements |-> BuildRequirements(Template),
             price |-> NoPrice, pay_to |-> NoPayTo]
  /\ verify_result' = NotVerified
  /\ rpc_calls' = <<>>
  /\ tx_to_send' = NoTx
  /\ resp' = [Http(200, NotVerified, NoSettle, NoErr) EXCEPT !.kinds = SupportedKinds]
  /\ pc' = "responded"
  /\ UNCHANGED <<phase, key_config, facilitator, deadline_elapsed>>

\* GET /v1/x402/fee-payer
get_fee_payer ==
  LET gf == get_facilitator(facilitator, key_config)
  IN  /\ Serving
      /\ facilitator' = gf.fac
      /\ req' = [endpoint |-> "fee-payer", payment_header |-> NoTx,
                 requirements |-> BuildRequirements(Template),
                 price |-> NoPrice, pay_to |-> NoPayTo]
      /\ verify_result' = NotVerified
      /\ rpc_calls' = <<>>
      /\ tx_to_send' = NoTx
      /\ resp' = IF gf.raised THEN HTTPException(500, KeyConfigError)
                 ELSE IF gf.fac.fee_payer = NoKey THEN HTTPException(500, NotInitialized)
                 ELSE [Http(200, NotVerified, NoSettle, NoErr)
                         EXCEPT !.fee_payer = B58(gf.fac.fee_payer)]
      /\ pc' = "responded"
      /\ UNCHANGED <<phase, key_config, deadline_elapsed>>

\* POST /v1/x402/verify
verify_payment ==
  Serving /\ \E c \in Choices : verify_payment_with(c)

\* POST /v1/x402/settle
settle_payment ==
  Serving /\ \E c \in Choices : settle_payment_with(c)

\* GET /v1/x402/demo/protected with X-PAYMENT
demo_protected ==
  Serving /\ \E c \in DemoChoices : demo_protected_with(c)

\* get_latest_blockhash returned or raised
get_latest_blockhash_done ==
  pc = "get_latest_blockhash"
  /\ \E outcome \in {"ok"} \cup RpcMessages : get_latest_blockhash_returns(outcome)

\* send_transaction returned or raised
send_transaction_done ==
  pc = "send_transaction"
  /\ \E outcome \in {"ok"} \cup RpcMessages : send_transaction_returns(outcome)

\* the deadline of the request passes while settle awaits the chain client:
\* settle has no timer, so nothing else changes
deadline_elapses ==
  /\ pc \in {"get_latest_blockhash", "send_transaction"}
  /\ ~deadline_elapsed
  /\ deadline_elapsed' = TRUE
  /\ UNCHANGED <<phase, key_config, facilitator, pc, req, verify_result, rpc_calls,
                 tx_to_send, resp>>

\* a facilitator that keeps the last transaction it built (C32 depends on
\* nothing of a payment being kept)
request_endsMut ==
  /\ pc = "responded"
  /\ pc' = "idle"
  /\ req' = [endpoint |-> "none", payment_header |-> NoTx,
             requirements |-> BuildRequirements(Template),
             price |-> NoPrice, pay_to |-> NoPayTo]
  /\ verify_result' = NotVerified
  /\ rpc_calls' = <<>>
  /\ resp' = NoResponse
  /\ deadline_elapsed' = FALSE
  /\ UNCHANGED <<phase, key_config, facilitator, tx_to_send>>

\* the response is sent; nothing of the request is kept
request_ends ==
  /\ pc = "responded"
  /\ pc' = "idle"
  /\ req' = [endpoint |-> "none", payment_header |-> NoTx,
             requirements |-> BuildRequirements(Template),
             price |-> NoPrice, pay_to |-> NoPayTo]
  /\ verify_result' = NotVerified
  /\ rpc_calls' = <<>>
  /\ tx_to_send' = NoTx
  /\ resp' = NoResponse
  /\ deadline_elapsed' = FALSE
  /\ UNCHANGED <<phase, key_config, facilitator>>

Next ==
  \/ Startup
  \/ Shutdown
  \/ get_supported
  \/ generate_requirements
  \/ get_fee_payer
  \/ verify_payment
  \/ settle_payment
  \/ demo_protected_unpaid
  \/ demo_protected
  \/ get_latest_blockhash_done
  \/ send_transaction_done
  \/ deadline_elapses
  \/ request_ends

Spec ==
  Init /\ [][Next]_vars

(***************************************************************************)
(* Properties.                                                             *)
(***************************************************************************)
\* the request in flight, as the verifier saw it
T == req.payment_header
R == req.requirements

\* facilitator.verify ran in this request
VerifyCalled ==
  verify_result # NotVerified

\* key is referenced by the account indices of some instruction of tx
Referenced(tx, key) ==
  \E i \in 1..Len(tx.instructions) :
    \E a \in 1..Len(tx.instructions[i].accounts) :
      LET idx == tx.instructions[i].accounts[a]
      IN  idx < Len(tx.account_keys) /\ tx.account_keys[idx + 1] = key

\* every program index and account index of tx is inside its account keys
IndicesInRange(tx) ==
  \A i \in 1..Len(tx.instructions) :
    /\ tx.instructions[i].program_id_index < Len(tx.account_keys)
    /\ \A a \in 1..Len(tx.instructions[i].accounts) :
         tx.instructions[i].accounts[a] < Len(tx.account_keys)

\* the key an instruction of tx names at a 0-based position of its accounts
AccountOf(tx, i, pos) ==
  tx.account_keys[tx.instructions[i].accounts[pos + 1] + 1]

ProgramOf(tx, i) ==
  tx.account_keys[tx.instructions[i].program_id_index + 1]

\* tx decodes, has three instructions and passes the compute budget checks
PreludePasses(tx) ==
  /\ tx.fmt \in {"legacy", "v0"}
  /\ ~InstructionCountWrong(tx.instructions)
  /\ \A idx \in {0, 1} : ~KeyRaises(tx.account_keys, At(tx.instructions, idx).program_id_index)
  /\ ComputeBudgetCount(tx.instructions, tx.account_keys) = 2
  /\ LET p == PriceInstructionIdx(tx.instructions, tx.account_keys)
     IN  p # 0 - 1 => _verify_compute_price(At(tx.instructions, p)).ok

\* ... and its third instruction is a TransferChecked of a token program
\* with data long enough to hold amount and decimals
TransferShapePasses(tx) ==
  /\ PreludePasses(tx)
  /\ ~KeyRaises(tx.account_keys, tx.instructions[3].program_id_index)
  /\ ProgramOf(tx, 3) \in {SPL_TOKEN_PROGRAM, TOKEN_2022_PROGRAM}
  /\ Len(tx.instructions[3].data) >= 10
  /\ tx.instructions[3].data[1] = 12

\* the facilitator's signature stands in a slot of tx
FacilitatorSigned(tx) ==
  /\ facilitator.fee_payer # NoKey
  /\ \E i \in 1..Len(tx.signatures) : tx.signatures[i][1] = facilitator.fee_payer

\* C1: whenever the facilitator has written its own signature into a
\* transaction, the key it signs with is not referenced by the account
\* indices of any instruction of that transaction.
C1_SignedTransactionNeverNamesFacilitator ==
  FacilitatorSigned(tx_to_send) => ~Referenced(tx_to_send, facilitator.fee_payer)

C3_NoChainCallUnlessVerified ==
  /\ rpc_calls # <<>> =>
       (VerifyCalled /\ verify_result.is_valid /\ verify_result = verify(T, R))
  /\ tx_to_send # NoTx => (VerifyCalled /\ verify_result.is_valid)
  /\ (pc = "responded" /\ VerifyCalled /\ ~verify_result.is_valid) =>
       /\ rpc_calls = <<>>
       /\ ~resp.success
       /\ req.endpoint = "settle" =>
            resp.settle_error = Err("Verification failed: ", verify_result.invalid_reason)
       /\ req.endpoint = "demo" =>
            (resp.status = 402 /\ resp.error = Err("", verify_result.invalid_reason))

\* C3 happens: a configured facilitator answered a settle request whose
\* payment failed verification.
C3_Witness ==
  /\ pc = "responded"
  /\ req.endpoint = "settle"
  /\ facilitator.fee_payer # NoKey
  /\ VerifyCalled
  /\ ~verify_result.is_valid
  /\ ~resp.success
  /\ rpc_calls = <<>>

\* C4: when verify returns valid, the eight bytes at data offset 1 of
\* instruction 2 are the little-endian u64 of int(R.maxAmountRequired);
\* when they differ and the earlier checks pass, verify returns invalid with
\* the reason "Amount <amount> does not match required <required>".
C4_AmountExact ==
  VerifyCalled =>
    LET required == ParseInt(R.max_amount_required)
    IN  /\ verify_result.is_valid =>
             /\ required.ok
             /\ Slice(T.instructions[3].data, 1, 9) = PackLE(required.value, 8)
        /\ ( /\ TransferShapePasses(T)
             /\ required.ok
             /\ Slice(T.instructions[3].data, 1, 9) # PackLE(required.value, 8) )
           => verify_result = VerifyResponse(FALSE,
                 Reason("Amount X does not match required Y",
                        UnpackLE(Slice(T.instructions[3].data, 1, 9)), required.value))

\* C4 happens: a payment of 9999 for a requirement of 10000 was refused.
C4_Witness ==
  /\ pc = "responded"
  /\ VerifyCalled
  /\ verify_result.invalid_reason = Reason("Amount X does not match required Y", 9999, 10000)

\* C5: when verify returns valid, account 2 of instruction 2 is the address
\* derived under the associated-token program from the seeds (R.payTo, the
\* token program instruction 2 targets, R.asset); a payment with any other
\* destination is not valid.
C5_DestinationIsAssociatedTokenAddress ==
  (VerifyCalled /\ verify_result.is_valid) =>
    LET seeds == <<PubkeyFromString(R.pay_to), ProgramOf(T, 3), PubkeyFromString(R.asset)>>
    IN  /\ PubkeyFromString(R.pay_to) # NoKey
        /\ AccountOf(T, 3, 2) = find_program_address(seeds, ASSOCIATED_TOKEN_PROGRAM)[1]

\* C5 happens: a Token-2022 transfer to the Token-2022 account of the payee
\* was accepted.
C5_Witness ==
  /\ pc = "responded"
  /\ VerifyCalled
  /\ verify_result.is_valid
  /\ ProgramOf(T, 3) = TOKEN_2022_PROGRAM
  /\ AccountOf(T, 3, 2) = MERCHANT_ATA_2022

\* C6: when verify returns valid, account 1 of instruction 2 (the mint) is
\* R.asset; a payment with a different mint is not valid.
C6_MintIsAsset ==
  (VerifyCalled /\ verify_result.is_valid) =>
    /\ PubkeyFromString(R.asset) # NoKey
    /\ AccountOf(T, 3, 1) = PubkeyFromString(R.asset)

\* C6 happens: a transfer of another mint than the asset was refused for its
\* mint.
C6_Witness ==
  /\ pc = "responded"
  /\ VerifyCalled
  /\ verify_result.invalid_reason = Reason("Mint X does not match required Y", OTHER_MINT, USDC_MINT)

\* C7: verify returns valid only for three instructions; for a decodable
\* transaction with n # 3 instructions it returns invalid with the reason
\* "Expected 3 instructions, got n".
C7_ExactlyThreeInstructions ==
  VerifyCalled =>
    /\ verify_result.is_valid => Len(T.instructions) = 3
    /\ (T.fmt \in {"legacy", "v0"} /\ Len(T.instructions) # 3) =>
         verify_result = VerifyResponse(FALSE,
            Reason("Expected 3 instructions, got N", Len(T.instructions), 0))

\* C7 happens: a payment with a fourth instruction was refused.
C7_Witness ==
  /\ pc = "responded"
  /\ VerifyCalled
  /\ Len(T.instructions) = 4
  /\ verify_result.invalid_reason = Reason("Expected 3 instructions, got N", 4, 0)

\* C8: when verify returns valid, instructions 0 and 1 both target the
\* compute-budget program and one carries discriminator 2 and the other 3.
C8_OneLimitAndOnePrice ==
  (VerifyCalled /\ verify_result.is_valid) =>
    /\ ProgramOf(T, 1) = COMPUTE_BUDGET_PROGRAM
    /\ ProgramOf(T, 2) = COMPUTE_BUDGET_PROGRAM
    /\ Len(T.instructions[1].data) >= 1
    /\ Len(T.instructions[2].data) >= 1
    /\ {T.instructions[1].data[1], T.instructions[2].data[1]} = {2, 3}

\* C9: when verify returns valid, every instruction at index 0 or 1 that
\* targets the compute-budget program with discriminator 3 carries a u64
\* price that does not exceed max_compute_unit_price.
C9_EveryPriceWithinMaximum ==
  (VerifyCalled /\ verify_result.is_valid) =>
    \A i \in {1, 2} :
      ( /\ ProgramOf(T, i) = COMPUTE_BUDGET_PROGRAM
        /\ Len(T.instructions[i].data) >= 1
        /\ T.instructions[i].data[1] = 3 )
      => /\ Len(T.instructions[i].data) >= 9
         /\ UnpackLE(Slice(T.instructions[i].data, 1, 9)) <= max_compute_unit_price

\* C10: when verify returns valid, instruction 2 targets the classic token
\* program or Token-2022, its first data byte is 12 and it references
\* exactly four accounts.
C10_TransferHasExactlyFourAccounts ==
  (VerifyCalled /\ verify_result.is_valid) =>
    /\ ProgramOf(T, 3) \in {SPL_TOKEN_PROGRAM, TOKEN_2022_PROGRAM}
    /\ T.instructions[3].data[1] = 12
    /\ Len(T.instructions[3].accounts) = 4

\* C11: when verify returns valid, the first account key of T (the fee
\* payer of the transaction) is the address R.extra.feePayer.
C11_FirstAccountKeyIsFeePayer ==
  (VerifyCalled /\ verify_result.is_valid) =>
    /\ T.account_keys # <<>>
    /\ T.account_keys[1] = PubkeyFromString(R.extra.fee_payer)

\* C12: when verify returns valid, the header of T requires exactly two
\* signatures and the second account key of T is the authority (account 3)
\* of instruction 2.
C12_TwoSignersAndSenderIsAuthority ==
  (VerifyCalled /\ verify_result.is_valid) =>
    /\ T.num_required_signatures = 2
    /\ Len(T.account_keys) >= 2
    /\ T.account_keys[2] = AccountOf(T, 3, 3)

\* the requirements a caller can pair with a payment
AllRequirements ==
  { PaymentRequirements(AmountOptions[a], AssetOptions[m], PayToOptions[p], FeePayerOptions[f]) :
      a \in 1..Len(AmountOptions), m \in 1..Len(AssetOptions),
      p \in 1..Len(PayToOptions), f \in 1..Len(FeePayerOptions) }

\* the fields in which two requirements differ
DifferingFields(R1, R2) ==
  {f \in {"asset", "pay_to", "max_amount_required", "fee_payer"} :
     CASE f = "asset"               -> R1.asset # R2.asset
       [] f = "pay_to"              -> R1.pay_to # R2.pay_to
       [] f = "max_amount_required" -> R1.max_amount_required # R2.max_amount_required
       [] OTHER                     -> R1.extra.fee_payer # R2.extra.fee_payer}

\* C13: when verify(T, R) is valid, verify(T, R2) is invalid for every
\* requirement R2 that differs from R in exactly one of asset, payTo,
\* maxAmountRequired and extra.feePayer.
C13_MonotoneStrictness ==
  (VerifyCalled /\ verify_result.is_valid) =>
    \A R2 \in AllRequirements :
      Cardinality(DifferingFields(R, R2)) = 1 => ~verify(T, R2).is_valid

\* the reasons each check of the verifier can give
CountReasons ==
  {"Expected 3 instructions, got N"}

PreludeReasons ==
  {"First 2 instructions must be ComputeBudget instructions",
   "Invalid SetComputeUnitPrice instruction",
   "Compute unit price X exceeds max Y",
   IndexError.msg}

TransferReasons ==
  {"Third instruction must be SPL Token TransferChecked",
   "Expected TransferChecked instruction",
   "Invalid TransferChecked data",
   "Amount X does not match required Y",
   "Decimals X does not match expected Y",
   "TransferChecked requires 4 accounts",
   "Mint X does not match required Y",
   "Destination X does not match expected ATA Y",
   IndexError.msg, ValueError.msg, PubkeyError.msg}

FeePayerReasons ==
  {"Fee payer must not be in instruction accounts", IndexError.msg, PubkeyError.msg}

\* tx violates the instruction count check
CountViolated(tx) ==
  Len(tx.instructions) # 3

\* the compute budget check: instructions 0 and 1 target the compute budget
\* program, one sets the unit limit and the other the unit price, and the
\* price is within the maximum
PreludeHolds(tx) ==
  /\ \A i \in {1, 2} :
       /\ ~KeyRaises(tx.account_keys, tx.instructions[i].program_id_index)
       /\ ProgramOf(tx, i) = COMPUTE_BUDGET_PROGRAM
       /\ Len(tx.instructions[i].data) >= 1
  /\ {tx.instructions[1].data[1], tx.instructions[2].data[1]} = {2, 3}
  /\ \A i \in {1, 2} :
       tx.instructions[i].data[1] = 3 =>
         /\ Len(tx.instructions[i].data) >= 9
         /\ UnpackLE(Slice(tx.instructions[i].data, 1, 9)) <= max_compute_unit_price

\* C14: when verify refuses a transaction that decodes, the reason belongs
\* to the earliest violated check in the order instruction count, compute
\* budget prelude, transfer instruction, fee payer isolation, whatever later
\* checks the transaction violates as well.
C14_EarliestViolatedCheckIsReported ==
  (VerifyCalled /\ T.fmt \in {"legacy", "v0"} /\ ~verify_result.is_valid) =>
    LET msg == verify_result.invalid_reason.msg
    IN  /\ CountViolated(T) => msg \in CountReasons
        /\ (~CountViolated(T) /\ ~PreludeHolds(T)) => msg \in PreludeReasons
        /\ ( /\ ~CountViolated(T)
             /\ PreludeHolds(T)
             /\ ~_verify_transfer_instruction(T.instructions[3], T.account_keys, R).ok )
           => msg \in TransferReasons
        /\ ( /\ ~CountViolated(T)
             /\ PreludeHolds(T)
             /\ _verify_transfer_instruction(T.instructions[3], T.account_keys, R).ok )
           => msg \in FeePayerReasons

\* C15: a step in which a handler calls verify leaves the key pair, the
\* chain client handle and the settings as get_facilitator gave them (an
\* installed facilitator is not changed at all); when the request is a
\* /verify request, or verify refuses the payment, the step makes no chain
\* client call and builds no transaction.
C15_VerifyMakesNoCallAndKeepsState ==
  [][ (pc = "idle" /\ pc' # "idle" /\ verify_result' # NotVerified) =>
        /\ facilitator' = get_facilitator(facilitator, key_config).fac
        /\ facilitator.installed => facilitator' = facilitator
        /\ key_config' = key_config
        /\ phase' = phase
        /\ (req'.endpoint = "verify" \/ ~verify_result'.is_valid) =>
             (rpc_calls' = <<>> /\ tx_to_send' = NoTx) ]_vars

\* C15 happens: a /verify request with a valid payment was answered, with
\* no chain client call and with the chain client handle still open.
C15_Witness ==
  /\ pc = "responded"
  /\ req.endpoint = "verify"
  /\ VerifyCalled
  /\ verify_result.is_valid
  /\ rpc_calls = <<>>
  /\ facilitator.rpc_client = "open"

\* the message of a transaction: everything but its signatures
MessageOf(tx) ==
  [fmt |-> tx.fmt, num_required_signatures |-> tx.num_required_signatures,
   account_keys |-> tx.account_keys, recent_blockhash |-> tx.recent_blockhash,
   instructions |-> tx.instructions]

\* C16: the transaction settle built for submission has as many signatures
\* as the transaction it received, the same signature in every slot but
\* slot 0, and the same message.
C16_OnlySignatureSlotZeroChanges ==
  tx_to_send # NoTx =>
    /\ Len(tx_to_send.signatures) = Len(T.signatures)
    /\ \A i \in 2..Len(T.signatures) : tx_to_send.signatures[i] = T.signatures[i]
    /\ MessageOf(tx_to_send) = MessageOf(T)

\* the chain client was asked to send a transaction in this request
Submitted ==
  \E i \in 1..Len(rpc_calls) : rpc_calls[i].method = "send_transaction"

\* C17: every transaction handed to send_transaction carries the
\* facilitator's signature in a slot i < numRequiredSignatures whose account
\* key is the facilitator's own address.
C17_SubmittedCarriesFacilitatorSignature ==
  Submitted =>
    \E i \in 1..Len(tx_to_send.signatures) :
      /\ i <= tx_to_send.num_required_signatures
      /\ i <= Len(tx_to_send.account_keys)
      /\ tx_to_send.account_keys[i] = facilitator.fee_payer
      /\ tx_to_send.signatures[i][1] = facilitator.fee_payer

\* C18: every signature of the facilitator in a transaction settle built is
\* a signature over the serialized message bytes, for legacy and versioned
\* transactions alike.
C18_SignsMessageBytes ==
  tx_to_send # NoTx =>
    \A i \in 1..Len(tx_to_send.signatures) :
      tx_to_send.signatures[i][1] = facilitator.fee_payer =>
        tx_to_send.signatures[i] = Signature(facilitator.fee_payer, "message")

\* C19: the message of the transaction settle built for submission is the
\* message the client sent; its recent block hash is the client's, not the
\* one get_latest_blockhash answered.
C19_MessageAndBlockhashUnchanged ==
  tx_to_send # NoTx =>
    /\ MessageOf(tx_to_send) = MessageOf(T)
    /\ tx_to_send.recent_blockhash = ClientBlockhash
    /\ tx_to_send.recent_blockhash # ChainBlockhash

\* C19 happens: the chain answered its latest block hash, and the
\* transaction was submitted and accepted with the client's block hash.
C19_Witness ==
  /\ pc = "responded"
  /\ resp.success
  /\ Len(rpc_calls) = 2
  /\ rpc_calls[1].method = "get_latest_blockhash"
  /\ rpc_calls[1].result.blockhash = ChainBlockhash
  /\ rpc_calls[2].method = "send_transaction"
  /\ tx_to_send.recent_blockhash = ClientBlockhash

\* what the last chain client call of the request gave
LastResult ==
  rpc_calls[Len(rpc_calls)].result

\* the request ended with an answer of the chain client to send_transaction
SubmissionAnswered ==
  /\ pc = "responded"
  /\ Submitted
  /\ rpc_calls[Len(rpc_calls)].method = "send_transaction"

\* C20 as stated: when the chain client accepts the submission, settle
\* returns success=true with txHash the signature the chain client returned;
\* when it raises, settle returns success=false with error the message of
\* the exception, and the demo endpoint answers 402 with that message as
\* error.
C20_RpcResultIsSurfaced ==
  SubmissionAnswered =>
    /\ LastResult.kind = "value" =>
         (resp.success /\ resp.tx_hash = LastResult.signature)
    /\ LastResult.kind = "raise" =>
         /\ ~resp.success
         /\ resp.settle_error = Err("", Reason(LastResult.msg, 0, 0))
         /\ req.endpoint = "demo" =>
              (resp.status = 402 /\ resp.error = Err("", Reason(LastResult.msg, 0, 0)))

\* C20 as amended: the same, except that for an exception whose message is
\* empty the demo endpoint answers 402 with the error "Settlement failed".
C20_RpcResultIsSurfacedOrSettlementFailed ==
  SubmissionAnswered =>
    /\ LastResult.kind = "value" =>
         (resp.success /\ resp.tx_hash = LastResult.signature)
    /\ LastResult.kind = "raise" =>
         /\ ~resp.success
         /\ resp.settle_error = Err("", Reason(LastResult.msg, 0, 0))
         /\ req.endpoint = "demo" =>
              /\ resp.status = 402
              /\ resp.error = Err("", Reason(IF LastResult.msg = "" THEN "Settlement failed"
                                             ELSE LastResult.msg, 0, 0))

\* C20 happens: the chain refused the submission of the demo payment with
\* "Blockhash not found", and the demo endpoint answered 402 with it.
C20_Witness ==
  /\ SubmissionAnswered
  /\ req.endpoint = "demo"
  /\ LastResult = RpcRaised("Blockhash not found")
  /\ resp.status = 402
  /\ resp.error.msg = "Blockhash not found"

\* the error of a settle result is a string with at least one character
NonEmptyError(error) ==
  error # NoErr /\ ~(error.prefix = "" /\ error.msg = "")

\* the settle request ended Confirmed: success=true with the txHash the
\* chain client returned
Confirmed ==
  resp.success /\ Submitted /\ resp.tx_hash = LastResult.signature

\* the settle request ended Rejected: success=false with a non-empty error
Rejected ==
  ~resp.success /\ NonEmptyError(resp.settle_error)

\* C21: every settle request that ended has exactly one terminal outcome:
\* Confirmed (success=true with txHash) or Rejected (success=false with an
\* error the user sees, which is not empty).
C21_ExactlyOneTerminalOutcome ==
  (pc = "responded" /\ req.endpoint = "settle") =>
    /\ Confirmed \/ Rejected
    /\ ~(Confirmed /\ Rejected)

\* the demo resource answered a request that carried X-PAYMENT
DemoPaidAnswered ==
  pc = "responded" /\ req.endpoint = "demo" /\ req.payment_header # NoTx

\* the X-PAYMENT-RESPONSE header of the response decodes, base64 then JSON,
\* to an object with success true and the txHash of the settlement
HeaderCarriesSettlement ==
  /\ resp.x_payment_response[1] = "base64"
  /\ B64Decode(resp.x_payment_response)[1] = "json"
  /\ LET body == JsonLoads(B64Decode(resp.x_payment_response))
     IN  /\ body.success = TRUE
         /\ body.txHash = resp.tx_hash
         /\ body.txHash = LastResult.signature

\* C22: the demo resource answers 200 only when the X-PAYMENT passed
\* verification and the settlement returned success=true, and that response
\* carries an X-PAYMENT-RESPONSE header that decodes to success true and the
\* txHash; a verification failure and a settlement failure are answered 402
\* with the failure in the error field.
C22_DemoAnswers200OnlyForSettledPayment ==
  DemoPaidAnswered =>
    /\ resp.status = 200 =>
         /\ VerifyCalled /\ verify_result.is_valid
         /\ Submitted /\ LastResult.kind = "value"
         /\ resp.success
         /\ HeaderCarriesSettlement
    /\ (VerifyCalled /\ ~verify_result.is_valid) =>
         /\ resp.status = 402
         /\ resp.error = Err("", verify_result.invalid_reason)
    /\ (VerifyCalled /\ verify_result.is_valid /\ ~resp.success) =>
         /\ resp.status = 402
         /\ NonEmptyError(resp.error)
         /\ NonEmptyError(resp.settle_error) => resp.error = resp.settle_error

\* C22 happens: the demo resource answered 200 to a settled payment, with
\* the header.
C22_Witness ==
  /\ DemoPaidAnswered
  /\ resp.status = 200
  /\ resp.x_payment_response # NoHeader
  /\ LastResult.kind = "value"

\* the demo resource answered a request without X-PAYMENT
DemoUnpaidAnswered ==
  pc = "responded" /\ req.endpoint = "demo" /\ req.payment_header = NoTx

\* C23: without X-PAYMENT the demo resource answers 402 with a
\* PaymentRequiredResponse (x402Version 1, accepts not empty, the first
\* maxAmountRequired "10000") when the facilitator has a key, without
\* verifying and without a chain call; when no key is configured it answers
\* 503 with a detail that contains "facilitator not configured".
C23_UnpaidDemoAnswers402Or503 ==
  DemoUnpaidAnswered =>
    /\ key_config = "valid" =>
         /\ resp.status = 402
         /\ resp.x402_version = 1
         /\ resp.accepts # <<>>
         /\ resp.accepts[1].max_amount_required = <<"1", "0", "0", "0", "0">>
         /\ ~VerifyCalled
         /\ rpc_calls = <<>>
         /\ tx_to_send = NoTx
    /\ key_config = "empty" =>
         /\ resp.status = 503
         /\ resp.error.msg = "facilitator not configured"
         /\ ~VerifyCalled
         /\ rpc_calls = <<>>

\* C23 happens: the facilitator has a key and the demo resource answered an
\* unpaid request with its requirement.
C23_Witness ==
  /\ DemoUnpaidAnswered
  /\ facilitator.fee_payer = FAC
  /\ resp.status = 402
  /\ Len(resp.accepts) = 1

\* C24: a settle request whose chain call had not returned when its deadline
\* (the smaller of maxTimeoutSeconds and the server's default) elapsed ends
\* with success=false and the error "timeout".
C24_DeadlineEndsInTimeout ==
  (pc = "responded" /\ deadline_elapsed) =>
    /\ ~resp.success
    /\ resp.settle_error = Err("", Reason("timeout", 0, 0))

\* C25: in every payment requirement the service issues, from /requirements
\* for any payTo and from the demo resource, payTo differs from
\* extra.feePayer.
C25_PayToDiffersFromFeePayer ==
  \A i \in 1..Len(resp.accepts) :
    resp.accepts[i].pay_to # resp.accepts[i].extra.fee_payer

\* /requirements answered with a requirement
RequirementsIssued ==
  pc = "responded" /\ req.endpoint = "requirements" /\ resp.status = 200

\* the requirement /requirements issued
Issued ==
  resp.accepts[1]

\* 2^64 - 1 in decimal
MaxU64Text ==
  <<"1", "8", "4", "4", "6", "7", "4", "4", "0", "7", "3", "7", "0", "9", "5", "5",
    "1", "6", "1", "5">>

RECURSIVE DigitsLeq(_, _)
\* a <= b for two numerals of the same length
DigitsLeq(a, b) ==
  IF a = <<>> THEN TRUE
  ELSE IF DigitVal(Head(a)) < DigitVal(Head(b)) THEN TRUE
  ELSE IF DigitVal(Head(a)) > DigitVal(Head(b)) THEN FALSE
  ELSE DigitsLeq(Tail(a), Tail(b))

\* text is the decimal string of an integer of [1, 2^64 - 1]
InClampedRange(text) ==
  /\ text # <<>>
  /\ \A i \in 1..Len(text) : IsDigit(text[i])
  /\ StripZeros(text) = text
  /\ text # <<"0">>
  /\ \/ Len(text) < Len(MaxU64Text)
     \/ Len(text) = Len(MaxU64Text) /\ DigitsLeq(text, MaxU64Text)

\* C26: for every price /requirements accepts, "0", a price below one atomic
\* unit, a negative and a very large one included, maxAmountRequired is the
\* decimal string of an integer clamped to [1, 2^64 - 1].
C26_AmountIsClamped ==
  RequirementsIssued => InClampedRange(Issued.max_amount_required)

\* the numeral s (sign, digits, at most one point) as a number
NumberOf(s) ==
  LET neg   == s # <<>> /\ Head(s) = "-"
      body  == IF s # <<>> /\ Head(s) \in {"-", "+"} THEN Tail(s) ELSE s
      point == IF \E i \in 1..Len(body) : body[i] = "."
                 THEN CHOOSE i \in 1..Len(body) : body[i] = "."
                 ELSE Len(body) + 1
      int   == SubSeq(body, 1, point - 1)
  IN  Number(neg, IF int = <<>> THEN <<"0">> ELSE int, SubSeq(body, point + 1, Len(body)))

\* x * 10^k, exactly
TimesPow10(x, k) ==
  LET padded == x.frac \o [i \in 1..k |-> "0"]
  IN  Number(x.neg, x.int \o SubSeq(padded, 1, k), SubSeq(x.frac, k + 1, Len(x.frac)))

RECURSIVE Increment(_)
\* digits + 1
Increment(digits) ==
  IF digits = <<>> THEN <<"1">>
  ELSE LET last == digits[Len(digits)]
           init == SubSeq(digits, 1, Len(digits) - 1)
       IN  IF last = "9" THEN Append(Increment(init), "0")
           ELSE Append(init, Digits[DigitVal(last) + 2])

\* x rounded to the nearest integer, a tie to the even one
RoundHalfEven(x) ==
  LET first == IF x.frac = <<>> THEN 0 ELSE DigitVal(Head(x.frac))
      rest  == \E i \in 2..Len(x.frac) : x.frac[i] # "0"
      odd   == DigitVal(x.int[Len(x.int)]) % 2 = 1
      up    == first > 5 \/ (first = 5 /\ (rest \/ odd))
  IN  Number(x.neg, IF up THEN Increment(x.int) ELSE x.int, <<>>)

\* the price of the request to /requirements, as a number
PriceUsd ==
  NumberOf(Replace(req.price, "$"))

\* C27: maxAmountRequired is price * 10^decimals rounded to the nearest
\* integer, a tie to the even one: "$0.01" gives "10000", "1" gives
\* "1000000", and a price with at most six digits after the point converts
\* exactly.
C27_AmountIsRoundedProduct ==
  RequirementsIssued =>
    /\ Issued.max_amount_required
         = StrOfInt(RoundHalfEven(TimesPow10(PriceUsd, usdc_decimals)))
    /\ req.price = <<"$", "0", ".", "0", "1">> =>
         Issued.max_amount_required = <<"1", "0", "0", "0", "0">>
    /\ req.price = <<"1">> =>
         Issued.max_amount_required = <<"1", "0", "0", "0", "0", "0", "0">>
    /\ Len(PriceUsd.frac) <= usdc_decimals =>
         Issued.max_amount_required = StrOfInt(IntTrunc(TimesPow10(PriceUsd, usdc_decimals)))

\* a request is being handled or was answered
RequestServed ==
  pc # "idle"

\* C28: the facilitator is constructed and initialized once, at startup, and
\* never by the first request; with a malformed key startup fails and no
\* request is ever served.
C28_InitializedAtStartupOnly ==
  RequestServed => (phase # "init" /\ key_config # "malformed")

\* C29: no exception leaves a handler of the service (requirements, verify,
\* settle, fee-payer, demo), whatever the input and the state of the
\* facilitator, a missing and a malformed key included: the handler answers
\* with a response of its own.
C29_NoExceptionEscapes ==
  pc = "responded" => ~resp.escaped

\* the header is not base64, or its bytes are not a transaction
Undecodable(payment_header) ==
  payment_header.fmt \in {"notbase64", "garbage"}

\* C30: verify returns a result for every header and never raises; for a
\* header that is not base64 or does not decode to a transaction the result
\* is isValid=false with an invalidReason that is not empty; the result is
\* isValid=true only with invalidReason absent.
C30_VerifyAlwaysReturnsAResult ==
  VerifyCalled =>
    /\ (pc = "responded" /\ req.endpoint = "verify") =>
         (resp.status = 200 /\ ~resp.escaped /\ resp.is_valid = verify_result.is_valid)
    /\ Undecodable(T) =>
         /\ ~verify_result.is_valid
         /\ verify_result.invalid_reason # None
         /\ verify_result.invalid_reason.msg # ""
    /\ verify_result.is_valid => verify_result.invalid_reason = None

\* C30 happens: /verify answered a header that is not base64 with
\* isValid=false and the message of the decoder.
C30_Witness ==
  /\ pc = "responded"
  /\ req.endpoint = "verify"
  /\ T.fmt = "notbase64"
  /\ ~resp.is_valid
  /\ resp.invalid_reason = Base64Error

\* the number of submissions of the request
Submissions ==
  Cardinality({i \in 1..Len(rpc_calls) : rpc_calls[i].method = "send_transaction"})

\* C31: a settle request, and a request to the demo resource, submits a
\* transaction to the chain at most once: there is no second submission
\* after the chain client rejected or raised.
C31_AtMostOneSubmission ==
  /\ Submissions <= 1
  /\ (pc = "responded" /\ Submitted) =>
       rpc_calls[Len(rpc_calls)].method = "send_transaction"

\* C31 happens: the chain refused the submission of a settle request, and
\* the request ended with that one submission.
C31_Witness ==
  /\ pc = "responded"
  /\ req.endpoint = "settle"
  /\ Submissions = 1
  /\ LastResult.kind = "raise"
  /\ ~resp.success

\* nothing of a request is held
NoRecord ==
  /\ req = [endpoint |-> "none", payment_header |-> NoTx,
            requirements |-> BuildRequirements(Template),
            price |-> NoPrice, pay_to |-> NoPayTo]
  /\ verify_result = NotVerified
  /\ rpc_calls = <<>>
  /\ tx_to_send = NoTx
  /\ resp = NoResponse

\* the facilitator is initialized with a key and its chain client is open
Initialized ==
  /\ facilitator.installed
  /\ facilitator.fee_payer = FAC
  /\ facilitator.rpc_client = "open"

\* C32: after initialization verify and settle leave the facilitator (key
\* pair, chain client, settings) as it was and keep nothing of the payment:
\* between requests the process holds no record, so a request is answered
\* from its own inputs and the chain's answers, and the payment of the
\* template is submitted whenever it is sent, whatever was served before.
C32_NoInterRequestState ==
  /\ [][/\ (facilitator.installed /\ phase' = phase) => facilitator' = facilitator
        /\ key_config' = key_config]_vars
  /\ [](pc = "idle" => NoRecord)
  /\ []((Serving /\ Initialized) =>
          ENABLED (settle_payment_with(Template) /\ pc' = "get_latest_blockhash"))

\* C32 happens: a settle request was answered with success by an
\* initialized facilitator, which is as it was.
C32_Witness ==
  /\ pc = "responded"
  /\ req.endpoint = "settle"
  /\ resp.success
  /\ Initialized

\* C33: for a payment that passed verification the only chain client call
\* of settle is the submission, so a verified payment ends without success
\* only because the submission was rejected or failed.
C33_SubmissionIsTheOnlyChainCall ==
  /\ \A i \in 1..Len(rpc_calls) : rpc_calls[i].method = "send_transaction"
  /\ (pc = "responded" /\ VerifyCalled /\ verify_result.is_valid
        /\ req.endpoint \in {"settle", "demo"} /\ ~resp.success) =>
       (Submitted /\ LastResult.kind = "raise"
          /\ rpc_calls[Len(rpc_calls)].method = "send_transaction")

\* C34: get_facilitator returns a facilitator whose initialize completed, or
\* raises; after an initialize that raised no instance stays installed in
\* the global, so a later call raises the same error again.
C34_NoInstanceAfterFailedInitialize ==
  facilitator.installed => key_config # "malformed"

\* C35: however close_facilitator interleaves with requests, no request
\* issues a chain call on a facilitator whose chain client was closed.
C35_NoCallOnClosedClient ==
  \A i \in 1..Len(rpc_calls) : rpc_calls[i].client # "closed"

\* the kind (scheme, network) of a requirement is advertised
Advertised(requirements) ==
  \E k \in 1..Len(SupportedKinds) :
    SupportedKinds[k] = SupportedKind(requirements.scheme, requirements.network)

\* C36: the (scheme, network) of every requirement issued by /requirements
\* and by the demo resource is one of the kinds GET /v1/x402/supported
\* answers, a list that is not empty and starts with (exact, solana).
C36_IssuedKindIsAdvertised ==
  /\ (pc = "responded" /\ req.endpoint = "supported") =>
       /\ resp.kinds # <<>>
       /\ resp.kinds[1] = SupportedKind("exact", <<"solana">>)
  /\ \A i \in 1..Len(resp.accepts) : Advertised(resp.accepts[i])

====
